---- MODULE Spec2Model ----
(***************************************************************************)
(* The document-tree-to-markup generator of server.js: findFrameNode,      *)
(* nodeToJsx, traverseAndGenerate, reactAppFromFrame and                   *)
(* generateFilesFromFigmaFile, with the helpers they call.                 *)
(*                                                                         *)
(* Numbers.  A pixel value is an integer count of quarter pixels, so 4 is  *)
(* 1px, 2 is 0.5px and -6 is -1.5px.  Differences of such values are exact *)
(* in IEEE doubles, as they are here.  A rounded value is a whole number   *)
(* of pixels.                                                              *)
(*                                                                         *)
(* Strings.  A text is a sequence of one-character strings.                *)
(*                                                                         *)
(* Arrays.  A JavaScript array has an identity: children[a] is the content *)
(* of array a.  Array n (a node) is node n's `children`; array Local is    *)
(* the queue a running call allocates.  An absent `children` and an empty  *)
(* one are both <<>>: every test in the code treats them alike.            *)
(***************************************************************************)
EXTENDS Integers, Sequences, FiniteSets, TLC

VARIABLES children, children0, type, id, call, ret

vars == <<children, children0, type, id, call, ret>>

(* ------------------------------ bounds -------------------------------- *)

\* Nodes of a document, the document root included.
MaxNodes == 5
\* Longest text handed to escapeJsxText.
MaxLen == 3
\* Coordinates of a box range over -MaxCoord..MaxCoord quarter pixels.
MaxCoord == 3
\* Sizes of a box range over 0..MaxSize quarter pixels.
MaxSize == 2
\* Longest fills sequence of a node.
MaxFills == 2

(* ------------------------------ numbers ------------------------------- *)

\* Math.round on a value given in quarter pixels: floor(x + 0.5).
RoundHalfAwayFromZero(q) == IF q >= 0 THEN (q + 2) \div 4 ELSE -((-q + 2) \div 4)
Round(q) == (q + 2) \div 4

\* Math.round((c ?? 0) * 255) for a channel c given in quarters of 1.
Channel(c) == (c * 255 + 2) \div 4

(* ------------------------------ strings ------------------------------- *)

RECURSIVE ReplaceAll(_, _, _)
\* String.prototype.replace(/ch/g, rep): every ch of s replaced by rep,
\* the replacement text not rescanned.
ReplaceAll(s, ch, rep) ==
    IF s = <<>> THEN <<>>
    ELSE (IF Head(s) = ch THEN rep ELSE <<Head(s)>>) \o ReplaceAll(Tail(s), ch, rep)

Amp == <<"&", "a", "m", "p", ";">>
Lt == <<"&", "l", "t", ";">>
Gt == <<"&", "g", "t", ";">>

EscapeLtFirst(s) == ReplaceAll(ReplaceAll(ReplaceAll(s, "<", Lt), "&", Amp), ">", Gt)
escapeJsxText(s) == ReplaceAll(ReplaceAll(ReplaceAll(s, "&", Amp), "<", Lt), ">", Gt)

(* ------------------------------- fills -------------------------------- *)

None == [none |-> TRUE]

\* colorObjToRgba(c, a): the rgba(...) text as its four numbers; alpha in
\* quarters of 1.
colorObjToRgba(c, a) ==
    [r |-> Channel(c.r), g |-> Channel(c.g), b |-> Channel(c.b),
     alpha |-> IF a = None THEN 4 ELSE a.value]

\* A fill is None (a missing descriptor) or [type, color, opacity], with
\* color and opacity None when absent and opacity [value |-> a] otherwise.
fillToCssColor(fill) ==
    IF fill = None THEN None
    ELSE IF fill.type = "SOLID" /\ fill.color # None
         THEN colorObjToRgba(fill.color, fill.opacity)
         ELSE None

RECURSIVE BackgroundFirstSolid(_)
\* The color of the first fill of the sequence that yields one, wherever it is.
BackgroundFirstSolid(fills) ==
    IF fills = <<>> THEN None
    ELSE IF fillToCssColor(Head(fills)) # None
         THEN fillToCssColor(Head(fills))
         ELSE BackgroundFirstSolid(Tail(fills))
\* nodeToJsx's `bg`: fills[0] alone decides it.
Background(fills) ==
    IF Len(fills) > 0 THEN fillToCssColor(fills[1]) ELSE None

(* ------------------------------ nodeToJsx ----------------------------- *)

ZeroBox == [x |-> 0, y |-> 0, width |-> 0, height |-> 0]
\* 800 x 600 px at the origin.
DefaultFrameBox == [x |-> 0, y |-> 0, width |-> 3200, height |-> 2400]

OriginX(frameBox) == IF frameBox = None THEN 0 ELSE frameBox.x
OriginY(frameBox) == IF frameBox = None THEN 0 ELSE frameBox.y

GeometryZeroWithoutBox(node, frameBox) ==
    IF node.box = None
    THEN [left |-> 0, top |-> 0, width |-> 0, height |-> 0]
    ELSE [left |-> Round(node.box.x - OriginX(frameBox)),
          top |-> Round(node.box.y - OriginY(frameBox)),
          width |-> Round(node.box.width),
          height |-> Round(node.box.height)]
\* left, top, width, height of a fragment.
Geometry(node, frameBox) ==
    LET box == IF node.box = None THEN ZeroBox ELSE node.box
    IN [left |-> Round(box.x - OriginX(frameBox)),
        top |-> Round(box.y - OriginY(frameBox)),
        width |-> Round(box.width),
        height |-> Round(box.height)]

\* A node is [of, type, box, fills, characters, fontSize, hasChildren]; `of`
\* names the node and is not read by the code.  The fragment is the markup
\* text as its parts: the style declarations and the body.
nodeToJsx(node, frameBox) ==
    LET g == Geometry(node, frameBox)
    IN [of |-> node.of,
        left |-> g.left, top |-> g.top, width |-> g.width, height |-> g.height,
        background |-> Background(node.fills),
        fontSize |-> IF node.type = "TEXT" THEN node.fontSize ELSE None,
        body |-> IF node.type = "TEXT"
                 THEN [text |-> escapeJsxText(node.characters)]
                 ELSE IF node.hasChildren THEN [placeholder |-> TRUE]
                 ELSE [text |-> <<>>]]

\* reactAppFromFrame's frameBox and the root container's size.
FrameBoxOf(box) == IF box = None THEN DefaultFrameBox ELSE box
RootContainer(frameBox) ==
    [width |-> Round(frameBox.width), height |-> Round(frameBox.height)]

(* ---------------------------- the document ---------------------------- *)

Node == 0 .. (MaxNodes - 1)
\* The document root.
Root == 0
\* The array a running call allocates for its queue.
Local == -1
\* null, as a node.
NoNode == -2
\* null, as a target id; an id is an opaque token, a positive number here.
NoId == 0

Candidates == {"FRAME", "COMPONENT", "INSTANCE", "GROUP", "RECTANGLE"}

\* absoluteBoundingBox of node n: the document and its pages carry none.
LayoutBox(n) ==
    IF type[n] \in {"DOCUMENT", "CANVAS"} THEN None
    ELSE [x |-> 40 * n + 2, y |-> 6 - 8 * n, width |-> 400 - 40 * n + 2, height |-> 80 + 4 * n]

\* The node object n as nodeToJsx reads it, its children being h[n].
NodeRecord(h, n) ==
    [of |-> n, type |-> type[n], box |-> LayoutBox(n), fills |-> <<>>,
     characters |-> <<>>, fontSize |-> None, hasChildren |-> h[n] # <<>>]

\* `[...src]`: a fresh array holding the elements of array src.
SpreadAlias(h, src) == [ref |-> src, heap |-> h]
SpreadCopy(h, src) == [ref |-> Local, heap |-> [h EXCEPT ![Local] = h[src]]]

\* stack.shift() and stack.push(...n.children) on array ref.
Shift(h, ref) == [h EXCEPT ![ref] = Tail(@)]
PushChildren(h, ref, n) == [h EXCEPT ![ref] = @ \o h[n]]

(* ---------------------------- findFrameNode --------------------------- *)

RECURSIVE SearchByIdDepthFirst(_, _, _)
\* stack.pop() in place of stack.shift(): the last element is taken.
SearchByIdDepthFirst(h, ref, nodeId) ==
    IF h[ref] = <<>> THEN [node |-> NoNode, heap |-> h]
    ELSE LET n == h[ref][Len(h[ref])]
             h1 == [h EXCEPT ![ref] = SubSeq(@, 1, Len(@) - 1)]
         IN IF id[n] = nodeId THEN [node |-> n, heap |-> h1]
            ELSE SearchByIdDepthFirst(PushChildren(h1, ref, n), ref, nodeId)

RECURSIVE SearchById(_, _, _)
\* The while loop of the search by id, on the queue in array ref.
SearchById(h, ref, nodeId) ==
    IF h[ref] = <<>> THEN [node |-> NoNode, heap |-> h]
    ELSE LET n == Head(h[ref])
             h1 == Shift(h, ref)
         IN IF id[n] = nodeId THEN [node |-> n, heap |-> h1]
            ELSE SearchById(PushChildren(h1, ref, n), ref, nodeId)

RECURSIVE FirstCandidate(_)
\* The inner for loop: the first child of a page with a candidate type.
FirstCandidate(kids) ==
    IF kids = <<>> THEN NoNode
    ELSE IF type[Head(kids)] \in Candidates THEN Head(kids)
         ELSE FirstCandidate(Tail(kids))

RECURSIVE ScanPages(_, _)
\* The outer for loop over the pages.
ScanPages(h, pages) ==
    IF pages = <<>> THEN NoNode
    ELSE IF FirstCandidate(h[Head(pages)]) # NoNode
         THEN FirstCandidate(h[Head(pages)])
         ELSE ScanPages(h, Tail(pages))

RECURSIVE SearchFrameAnyCandidate(_, _)
\* The deep search taking every candidate type, as the first tier does.
SearchFrameAnyCandidate(h, ref) ==
    IF h[ref] = <<>> THEN [node |-> NoNode, heap |-> h]
    ELSE LET n == Head(h[ref])
             h1 == Shift(h, ref)
         IN IF type[n] \in Candidates THEN [node |-> n, heap |-> h1]
            ELSE SearchFrameAnyCandidate(PushChildren(h1, ref, n), ref)

RECURSIVE SearchFrame(_, _)
\* The while loop of the fallback: the first node of type FRAME.
SearchFrame(h, ref) ==
    IF h[ref] = <<>> THEN [node |-> NoNode, heap |-> h]
    ELSE LET n == Head(h[ref])
             h1 == Shift(h, ref)
         IN IF type[n] = "FRAME" THEN [node |-> n, heap |-> h1]
            ELSE SearchFrame(PushChildren(h1, ref, n), ref)

\* A document without children has no page to scan and an empty queue to
\* search: null, as the early return gives.
findFrameNode(h, documentNode, nodeId) ==
    IF nodeId # NoId
    THEN SearchById([h EXCEPT ![Local] = <<documentNode>>], Local, nodeId)
    ELSE IF ScanPages(h, h[documentNode]) # NoNode
         THEN [node |-> ScanPages(h, h[documentNode]), heap |-> h]
         ELSE LET s == SpreadCopy(h, documentNode)
              IN SearchFrame(s.heap, s.ref)

(* ------------------------- traverseAndGenerate ------------------------ *)

RECURSIVE TraverseLoopDepthFirst(_, _, _, _)
\* stack.unshift(...node.children): the children go to the front of the queue.
TraverseLoopDepthFirst(h, ref, frameBox, jsxParts) ==
    IF h[ref] = <<>> THEN [jsx |-> jsxParts, heap |-> h]
    ELSE LET node == Head(h[ref])
             h1 == Shift(h, ref)
         IN TraverseLoopDepthFirst([h1 EXCEPT ![ref] = h1[node] \o @], ref, frameBox,
                Append(jsxParts, nodeToJsx(NodeRecord(h1, node), frameBox)))

RECURSIVE TraverseLoop(_, _, _, _)
TraverseLoop(h, ref, frameBox, jsxParts) ==
    IF h[ref] = <<>> THEN [jsx |-> jsxParts, heap |-> h]
    ELSE LET node == Head(h[ref])
             h1 == Shift(h, ref)
         IN TraverseLoop(PushChildren(h1, ref, node), ref, frameBox,
                         Append(jsxParts, nodeToJsx(NodeRecord(h1, node), frameBox)))

\* nodes is the array handed in (a node's children).
traverseAndGenerate(h, nodes, frameBox) ==
    LET s == SpreadCopy(h, nodes)
    IN TraverseLoop(s.heap, s.ref, frameBox, <<>>)

(* -------------------------- reactAppFromFrame ------------------------- *)

\* The frame itself flattened as a one-node subtree.
reactAppFromFrameItself(h, frameNode) ==
    LET frameBox == FrameBoxOf(LayoutBox(frameNode))
    IN [app |-> [root |-> RootContainer(frameBox),
                 childrenJsx |-> <<nodeToJsx(NodeRecord(h, frameNode), frameBox)>>],
        heap |-> h]
reactAppFromFrame(h, frameNode) ==
    LET frameBox == FrameBoxOf(LayoutBox(frameNode))
        t == traverseAndGenerate(h, frameNode, frameBox)
    IN [app |-> [root |-> RootContainer(frameBox), childrenJsx |-> t.jsx],
        heap |-> t.heap]

(* --------------------- generateFilesFromFigmaFile --------------------- *)

\* doc.children[0], the first page itself.
FallbackFirstPage(h, doc) == IF h[doc] # <<>> THEN h[doc][1] ELSE NoNode
\* doc.children[0].children[0], or null.
Fallback(h, doc) ==
    IF h[doc] # <<>> /\ h[h[doc][1]] # <<>> THEN h[h[doc][1]][1] ELSE NoNode

\* The readme of the fallback set quotes fallback.name; node n is named n.
FallbackReadme(n) == [text |-> "fallback frame", name |-> n]
FullReadme == [text |-> "run instructions"]
IndexHtml == [text |-> "host page"]
PackageJson == [name |-> "figma-generated-app"]

generateFilesFromFigmaFile(h, doc, nodeId) ==
    LET f == findFrameNode(h, doc, nodeId)
    IN IF f.node = NoNode
       THEN IF Fallback(f.heap, doc) = NoNode
            THEN [threw |-> TRUE, files |-> <<>>, heap |-> f.heap]
            ELSE LET a == reactAppFromFrame(f.heap, Fallback(f.heap, doc))
                 IN [threw |-> FALSE,
                     files |-> ("App.jsx" :> a.app) @@
                               ("README.md" :> FallbackReadme(Fallback(f.heap, doc))),
                     heap |-> a.heap]
       ELSE LET a == reactAppFromFrame(f.heap, f.node)
            IN [threw |-> FALSE,
                files |-> ("App.jsx" :> a.app) @@ ("index.html" :> IndexHtml) @@
                          ("package.json" :> PackageJson) @@ ("README.md" :> FullReadme),
                heap |-> a.heap]

(* ------------------------------ documents ----------------------------- *)

Arrays == Node \cup {Local}
NodeTypes == Candidates \cup {"SECTION"}
\* Ids that several nodes of a document may share, and the id only node n has.
IdPool == {1, 2}
UniqueId(n) == 10 + n
\* An id no node has.
AbsentId == UniqueId(MaxNodes)

RECURSIVE Ascending(_)
Ascending(S) ==
    IF S = {} THEN <<>>
    ELSE LET m == CHOOSE x \in S : \A y \in S : x <= y
         IN <<m>> \o Ascending(S \ {m})

\* The documents of `size` nodes: node n > 0 hangs under parent[n] < n, the
\* children of a node listed in ascending order.
Parents(size) == {p \in [1 .. (size - 1) -> Node] : \A n \in 1 .. (size - 1) : p[n] < n}
ChildrenOf(parent, size, a) == Ascending({m \in 1 .. (size - 1) : parent[m] = a})
Below(parent, size) == {n \in 1 .. (size - 1) : parent[n] # Root}
BaseType(parent, size, n) ==
    IF n = Root THEN "DOCUMENT"
    ELSE IF n < size /\ parent[n] = Root THEN "CANVAS"
    ELSE "FRAME"

\* A call that has returned leaves its queue to the collector.
Collect(h) == [h EXCEPT ![Local] = <<>>]
Idle == [op |-> "none"]

\* The nodes a queue reaches.
RECURSIVE Reach(_, _)
Reach(h, queue) ==
    IF queue = <<>> THEN {}
    ELSE {Head(queue)} \cup Reach(h, Tail(queue) \o h[Head(queue)])
\* The nodes of the document are the root and the nodes that are somebody's
\* child: a parent has a smaller number than its child, so the root reaches
\* every one of them.
InTree(n) ==
    n = Root \/ \E a \in Node : \E i \in 1 .. Len(children0[a]) : children0[a][i] = n
\* The target ids a call is tried with: none, the ids of the nodes, and one
\* no node has.
Targets == {NoId, AbsentId} \cup {id[n] : n \in Node}

Init ==
    \E size \in 1 .. MaxNodes :
      \E parent \in Parents(size) :
        /\ children = [a \in Arrays |-> IF a = Local THEN <<>>
                                        ELSE ChildrenOf(parent, size, a)]
        /\ children0 = children
        /\ \/ /\ \E other \in NodeTypes \ {"FRAME", "SECTION"} :
                   \E t \in [Below(parent, size) -> {"FRAME", other, "SECTION"}] :
                   type = [n \in Node |-> IF n \in Below(parent, size) THEN t[n]
                                          ELSE BaseType(parent, size, n)]
              /\ id = [n \in Node |-> UniqueId(n)]
           \/ /\ type = [n \in Node |-> BaseType(parent, size, n)]
              /\ \E i \in [0 .. (size - 1) -> IdPool] :
                   id = [n \in Node |-> IF n < size THEN i[n] ELSE UniqueId(n)]
        /\ call = Idle
        /\ ret = None

CallFindFrameNode(nodeId) ==
    LET r == findFrameNode(children, Root, nodeId)
    IN /\ call = Idle
       /\ call' = [op |-> "findFrameNode", nodeId |-> nodeId]
       /\ ret' = [node |-> r.node]
       /\ children' = Collect(r.heap)
       /\ UNCHANGED <<children0, type, id>>

CallTraverseAndGenerate(n) ==
    LET r == traverseAndGenerate(children, n, FrameBoxOf(LayoutBox(n)))
    IN /\ call = Idle
       /\ InTree(n)
       /\ call' = [op |-> "traverseAndGenerate", nodes |-> n]
       /\ ret' = [jsx |-> r.jsx]
       /\ children' = Collect(r.heap)
       /\ UNCHANGED <<children0, type, id>>

CallReactAppFromFrame(n) ==
    LET r == reactAppFromFrame(children, n)
    IN /\ call = Idle
       /\ InTree(n)
       /\ call' = [op |-> "reactAppFromFrame", frameNode |-> n]
       /\ ret' = [app |-> r.app]
       /\ children' = Collect(r.heap)
       /\ UNCHANGED <<children0, type, id>>

CallGenerateFiles(nodeId) ==
    LET r == generateFilesFromFigmaFile(children, Root, nodeId)
    IN /\ call = Idle
       /\ call' = [op |-> "generateFilesFromFigmaFile", nodeId |-> nodeId]
       /\ ret' = [threw |-> r.threw, files |-> r.files]
       /\ children' = Collect(r.heap)
       /\ UNCHANGED <<children0, type, id>>

\* The result goes back to the caller, and the next call may come.
Respond ==
    /\ call # Idle
    /\ call' = Idle
    /\ ret' = None
    /\ UNCHANGED <<children, children0, type, id>>

Next ==
    \/ \E nodeId \in Targets : CallFindFrameNode(nodeId)
    \/ \E n \in Node : CallTraverseAndGenerate(n)
    \/ \E n \in Node : CallReactAppFromFrame(n)
    \/ \E nodeId \in Targets : CallGenerateFiles(nodeId)
    \/ Respond

Spec == Init /\ [][Next]_vars

(* ------------------- nodeToJsx on one node at a time ------------------ *)

\* No document: the calls below take a node object, not a tree.
NoDocument ==
    /\ children = [a \in Arrays |-> <<>>]
    /\ children0 = children
    /\ type = [n \in Node |-> IF n = Root THEN "DOCUMENT" ELSE "FRAME"]
    /\ id = [n \in Node |-> UniqueId(n)]

Boxes ==
    [x : (-MaxCoord) .. MaxCoord, y : (-MaxCoord) .. MaxCoord,
     width : 0 .. MaxSize, height : 0 .. MaxSize]
\* The boxes of the located frame: their size is not read by nodeToJsx.
FrameBoxes ==
    [x : {-MaxCoord, 0, MaxCoord}, y : {-MaxCoord, 0, MaxCoord}, width : {0}, height : {0}]

SolidA == [type |-> "SOLID", color |-> [r |-> 4, g |-> 0, b |-> 2], opacity |-> None]
SolidB == [type |-> "SOLID", color |-> [r |-> 1, g |-> 2, b |-> 3], opacity |-> [value |-> 2]]
SolidNoColor == [type |-> "SOLID", color |-> None, opacity |-> None]
Gradient == [type |-> "GRADIENT_LINEAR", color |-> None, opacity |-> None]
Fills == {SolidA, SolidB, SolidNoColor, Gradient}
FillSeqs == UNION {[1 .. n -> Fills] : n \in 0 .. MaxFills}

Shape(box) ==
    [of |-> 0, type |-> "RECTANGLE", box |-> box, fills |-> <<>>,
     characters |-> <<>>, fontSize |-> None, hasChildren |-> FALSE]
StyledNodes ==
    {[of |-> 0, type |-> "TEXT", box |-> None, fills |-> f, characters |-> c,
      fontSize |-> z, hasChildren |-> FALSE] :
        f \in FillSeqs, c \in {<<>>, <<"a", "&", "<">>}, z \in {None, [value |-> 16]}}
    \cup
    {[of |-> 0, type |-> "RECTANGLE", box |-> None, fills |-> f, characters |-> <<>>,
      fontSize |-> None, hasChildren |-> k] : f \in FillSeqs, k \in BOOLEAN}

EmitInit ==
    /\ NoDocument
    /\ \/ \E box \in Boxes \cup {None}, frameBox \in FrameBoxes \cup {None} :
            call = [op |-> "input", node |-> Shape(box), frameBox |-> frameBox]
       \/ \E node \in StyledNodes :
            call = [op |-> "input", node |-> node, frameBox |-> None]
    /\ ret = None

CallNodeToJsx ==
    /\ call.op = "input"
    /\ call' = [call EXCEPT !.op = "nodeToJsx"]
    /\ ret' = nodeToJsx(call.node, call.frameBox)
    /\ UNCHANGED <<children, children0, type, id>>

\* reactAppFromFrame on a frame without children: the root container alone.
CallReactAppFromLeafFrame ==
    /\ call.op = "input"
    /\ call' = [call EXCEPT !.op = "reactAppFromFrame"]
    /\ ret' = [root |-> RootContainer(FrameBoxOf(call.node.box)), childrenJsx |-> <<>>]
    /\ UNCHANGED <<children, children0, type, id>>

EmitNext == CallNodeToJsx \/ CallReactAppFromLeafFrame

SpecEmit == EmitInit /\ [][EmitNext]_vars

(* ---------------------------- escapeJsxText --------------------------- *)

Alphabet == {"&", "<", ">", "a"}
Texts == UNION {[1 .. n -> Alphabet] : n \in 0 .. MaxLen}

EscapeInit ==
    /\ NoDocument
    /\ \E s \in Texts : call = [op |-> "input", s |-> s, orig |-> s, again |-> FALSE]
    /\ ret = None

CallEscapeJsxText ==
    /\ call.op = "input"
    /\ call' = [call EXCEPT !.op = "escapeJsxText"]
    /\ ret' = escapeJsxText(call.s)
    /\ UNCHANGED <<children, children0, type, id>>

\* The escaped text escaped once more.
CallEscapeJsxTextAgain ==
    /\ call.op = "escapeJsxText"
    /\ ~call.again
    /\ call' = [call EXCEPT !.s = ret, !.again = TRUE]
    /\ ret' = escapeJsxText(ret)
    /\ UNCHANGED <<children, children0, type, id>>

EscapeNext == CallEscapeJsxText \/ CallEscapeJsxTextAgain

SpecEscape == EscapeInit /\ [][EscapeNext]_vars

(* ======================== properties of the code ====================== *)

(* ----- breadth-first order, ply by ply, on the document as given ------ *)

RECURSIVE Concat(_)
\* The children sequences of the nodes of a ply, one after the other.
Concat(ply) ==
    IF ply = <<>> THEN <<>> ELSE children0[Head(ply)] \o Concat(Tail(ply))

RECURSIVE Plies(_)
\* A ply, then the ply below it, and so on down.
Plies(ply) == IF ply = <<>> THEN <<>> ELSE ply \o Plies(Concat(ply))

Positions(seq, n) == {i \in 1 .. Len(seq) : seq[i] = n}
\* The first node of seq that is in the set S, or NoNode.
First(seq, S) ==
    IF \E i \in 1 .. Len(seq) : seq[i] \in S
    THEN seq[CHOOSE i \in 1 .. Len(seq) :
                 /\ seq[i] \in S
                 /\ \A j \in 1 .. (i - 1) : seq[j] \notin S]
    ELSE NoNode

WholeTree == Plies(<<Root>>)
\* The direct children of the pages, pages in document order.
PageChildren == Concat(children0[Root])
Of(jsx) == [i \in 1 .. Len(jsx) |-> jsx[i].of]
FirstPageFirstChild ==
    IF Len(children0[Root]) > 0 /\ Len(children0[children0[Root][1]]) > 0
    THEN children0[children0[Root][1]][1]
    ELSE NoNode

FullSet == {"App.jsx", "index.html", "package.json", "README.md"}
ReducedSet == {"App.jsx", "README.md"}

\* C1: generateFilesFromFigmaFile ends in exactly one of three ways: the full
\* set of four artifacts when findFrameNode finds a node; the reduced set of
\* two when it finds none and the first page has a first child; the 'No frame
\* found' error, with no mapping at all, exactly when it finds none and the
\* first page has no first child.
C1_ThreeOutcomes ==
    call.op = "generateFilesFromFigmaFile" =>
        LET found == findFrameNode(children0, Root, call.nodeId).node # NoNode
        IN /\ found => ~ret.threw /\ DOMAIN ret.files = FullSet
           /\ (~found /\ FirstPageFirstChild # NoNode) =>
                  ~ret.threw /\ DOMAIN ret.files = ReducedSet
           /\ ret.threw <=> (~found /\ FirstPageFirstChild = NoNode)
           /\ ret.threw => ret.files = <<>>

\* A target id that matches no node of a document without a first page child:
\* the error is raised.
C1_Witness ==
    /\ call.op = "generateFilesFromFigmaFile"
    /\ call.nodeId # NoId
    /\ \A n \in Node : InTree(n) => id[n] # call.nodeId
    /\ ret.threw

\* C2: with a target id, findFrameNode returns the first node in breadth-first
\* order from the document root, children in listed order, whose id is the
\* target, at any depth, and null exactly when no node of the tree has that id;
\* whatever calls came before.
C2_FirstByIdBreadthFirst ==
    (call.op = "findFrameNode" /\ call.nodeId # NoId) =>
        /\ ret.node = First(WholeTree, {n \in Node : id[n] = call.nodeId})
        /\ ret.node = NoNode <=> (\A n \in Node : InTree(n) => id[n] # call.nodeId)

\* Two nodes carry the target id, and the one found lies below a page.
C2_Witness ==
    /\ call.op = "findFrameNode"
    /\ call.nodeId # NoId
    /\ ret.node # NoNode
    /\ ret.node \notin {Root} \cup {children0[Root][i] : i \in 1 .. Len(children0[Root])}
    /\ \E m \in Node : InTree(m) /\ m # ret.node /\ id[m] = call.nodeId

\* C3: without a target id, findFrameNode returns the first direct child of a
\* page, pages in document order and children in listed order, whose type is
\* FRAME, COMPONENT, INSTANCE, GROUP or RECTANGLE; if no page has one, the
\* first node of type FRAME in breadth-first order over the whole tree; null
\* if there is none either.  A COMPONENT, INSTANCE, GROUP or RECTANGLE that
\* is no direct child of a page is never returned.
C3_TwoTierHeuristic ==
    (call.op = "findFrameNode" /\ call.nodeId = NoId) =>
        LET candidates == {n \in Node : type[n] \in Candidates}
            frames == {n \in Node : type[n] = "FRAME"}
        IN /\ ret.node = IF First(PageChildren, candidates) # NoNode
                         THEN First(PageChildren, candidates)
                         ELSE First(WholeTree, frames)
           /\ (ret.node # NoNode /\ type[ret.node] # "FRAME") =>
                  Positions(PageChildren, ret.node) # {}

\* No page has a candidate child, a FRAME lies deeper, and a deeper node of
\* another candidate type comes before it in breadth-first order.
C3_Witness ==
    /\ call.op = "findFrameNode"
    /\ call.nodeId = NoId
    /\ ret.node # NoNode
    /\ Positions(PageChildren, ret.node) = {}
    /\ \E m \in Node :
         /\ type[m] \in Candidates \ {"FRAME"}
         /\ \E i \in Positions(WholeTree, m), j \in Positions(WholeTree, ret.node) : i < j

\* C4: traverseAndGenerate emits one fragment per node below the given
\* top-level nodes, in breadth-first order: the top-level nodes in order, then
\* their children in listed order, ply by ply, a node before its descendants.
\* For A(children: [B, C(children: [D])]) the order is B, C, D.
C4_OneFragmentPerNodePlyByPly ==
    call.op = "traverseAndGenerate" =>
        LET order == Plies(children0[call.nodes])
            frameBox == FrameBoxOf(LayoutBox(call.nodes))
        IN /\ Of(ret.jsx) = order
           /\ \A i \in 1 .. Len(ret.jsx) :
                ret.jsx[i] = nodeToJsx(NodeRecord(children0, order[i]), frameBox)
           /\ \A n \in Node :
                Cardinality(Positions(Of(ret.jsx), n)) =
                    IF n \in Reach(children0, children0[call.nodes]) THEN 1 ELSE 0
           /\ \A i, j \in 1 .. Len(ret.jsx) :
                ret.jsx[j].of \in Reach(children0, children0[ret.jsx[i].of]) => i < j
           /\ \A b, c, d \in Node :
                (/\ children0[call.nodes] = <<b, c>>
                 /\ children0[b] = <<>>
                 /\ children0[c] = <<d>>
                 /\ children0[d] = <<>>) => Of(ret.jsx) = <<b, c, d>>

\* The tree A(children: [B(children: [E]), C]): C's fragment comes before E's.
C4_Witness ==
    /\ call.op = "traverseAndGenerate"
    /\ \E b, c, e \in Node :
         /\ children0[call.nodes] = <<b, c>>
         /\ children0[b] = <<e>>
         /\ Of(ret.jsx) = <<b, c, e>>

\* C7: no call changes the document: after any call, whatever calls came
\* before it, every children sequence is as it was given, nothing of the call
\* is left behind, and the result is the one the call gives on the document
\* as given.
C7_DocumentUnchanged ==
    /\ \A n \in Node : children[n] = children0[n]
    /\ children[Local] = <<>>
    /\ call.op = "findFrameNode" =>
           ret.node = findFrameNode(children0, Root, call.nodeId).node
    /\ call.op = "traverseAndGenerate" =>
           ret.jsx = traverseAndGenerate(children0, call.nodes,
                                         FrameBoxOf(LayoutBox(call.nodes))).jsx
    /\ call.op = "reactAppFromFrame" =>
           ret.app = reactAppFromFrame(children0, call.frameNode).app
    /\ call.op = "generateFilesFromFigmaFile" =>
           LET r == generateFilesFromFigmaFile(children0, Root, call.nodeId)
           IN ret.threw = r.threw /\ ret.files = r.files

\* A generation that found its frame by the search for a FRAME below the
\* pages and flattened a child of it.
C7_Witness ==
    /\ call.op = "generateFilesFromFigmaFile"
    /\ call.nodeId = NoId
    /\ ~ret.threw
    /\ DOMAIN ret.files = FullSet
    /\ Len(ret.files["App.jsx"].childrenJsx) > 0
    /\ First(PageChildren, {n \in Node : type[n] \in Candidates}) = NoNode

\* C10 as stated: on the fallback path the root markup component holds exactly
\* one fragment, that of the first page's first child F itself, and the
\* readme names F.
C10_Original ==
    (/\ call.op = "generateFilesFromFigmaFile"
     /\ findFrameNode(children0, Root, call.nodeId).node = NoNode
     /\ FirstPageFirstChild # NoNode) =>
        LET F == FirstPageFirstChild
        IN /\ ret.files["App.jsx"].childrenJsx =
                  <<nodeToJsx(NodeRecord(children0, F), FrameBoxOf(LayoutBox(F)))>>
           /\ ret.files["README.md"].name = F

\* C10, amended: on the fallback path F is treated as a located frame is: the
\* root container has F's rounded size, the fragments are those of the nodes
\* below F, breadth-first and relative to F's box, with none for F itself, and
\* the readme names F.
C10_FallbackFlattensBelowF ==
    (/\ call.op = "generateFilesFromFigmaFile"
     /\ findFrameNode(children0, Root, call.nodeId).node = NoNode
     /\ FirstPageFirstChild # NoNode) =>
        LET F == FirstPageFirstChild
            frameBox == FrameBoxOf(LayoutBox(F))
            app == ret.files["App.jsx"]
        IN /\ app.root = RootContainer(frameBox)
           /\ Of(app.childrenJsx) = Plies(children0[F])
           /\ \A i \in 1 .. Len(app.childrenJsx) :
                /\ app.childrenJsx[i].of # F
                /\ app.childrenJsx[i] =
                       nodeToJsx(NodeRecord(children0, app.childrenJsx[i].of), frameBox)
           /\ ret.files["README.md"].name = F
           /\ DOMAIN ret.files = ReducedSet

\* The fallback path on an F that has a child and a grandchild.
C10_Witness ==
    /\ call.op = "generateFilesFromFigmaFile"
    /\ call.nodeId # NoId
    /\ ~ret.threw
    /\ DOMAIN ret.files = ReducedSet
    /\ Len(ret.files["App.jsx"].childrenJsx) = 2
    /\ Len(children0[FirstPageFirstChild]) = 1

(* --------------------- one node: fills and geometry ------------------- *)

\* What nodeToJsx's left and top are measured from.
Origin == [x |-> OriginX(call.frameBox), y |-> OriginY(call.frameBox)]

\* C5 as stated: the fragment declares a background exactly when the fills
\* hold a SOLID fill that yields a color, and the color is that of the first
\* such fill, non-solid fills before it being skipped.
C5_Original ==
    call.op = "nodeToJsx" => ret.background = BackgroundFirstSolid(call.node.fills)

\* C5, amended: the fragment declares a background exactly when the fills
\* sequence is not empty and its first element is a SOLID fill with a color,
\* and the color is that element's; every later fill is ignored, a SOLID one
\* behind a non-solid one too.
C5_FirstFillOnly ==
    call.op = "nodeToJsx" =>
        LET fills == call.node.fills
            first == fills[1]
        IN /\ ret.background # None <=>
                  (Len(fills) > 0 /\ first.type = "SOLID" /\ first.color # None)
           /\ ret.background # None =>
                  /\ ret.background.r = (first.color.r * 255 + 2) \div 4
                  /\ ret.background.g = (first.color.g * 255 + 2) \div 4
                  /\ ret.background.b = (first.color.b * 255 + 2) \div 4
                  /\ ret.background.alpha =
                         IF first.opacity = None THEN 4 ELSE first.opacity.value

\* A gradient first and a SOLID fill with a color behind it: no background.
C5_Witness ==
    /\ call.op = "nodeToJsx"
    /\ Len(call.node.fills) = 2
    /\ call.node.fills[1].type # "SOLID"
    /\ call.node.fills[2].type = "SOLID"
    /\ call.node.fills[2].color # None
    /\ ret.background = None

Rounded ==
    IF call.op = "nodeToJsx"
    THEN LET box == IF call.node.box = None THEN ZeroBox ELSE call.node.box
         IN {<<box.x - Origin.x, ret.left>>, <<box.y - Origin.y, ret.top>>,
             <<box.width, ret.width>>, <<box.height, ret.height>>}
    ELSE IF call.op = "reactAppFromFrame"
    THEN LET box == IF call.node.box = None THEN DefaultFrameBox ELSE call.node.box
         IN {<<box.width, ret.root.width>>, <<box.height, ret.root.height>>}
    ELSE {}

\* C9 as stated: every rounding is to the nearest integer, ties half away
\* from zero: k + 0.5 to k + 1 and -(k + 0.5) to -(k + 1).
C9_Original ==
    \A v \in Rounded :
        /\ 4 * v[2] - 2 <= v[1] /\ v[1] <= 4 * v[2] + 2
        /\ (v[1] >= 0 /\ v[1] % 4 = 2) => 4 * v[2] = v[1] + 2
        /\ (v[1] < 0 /\ v[1] % 4 = 2) => 4 * v[2] = v[1] - 2

\* C9, amended: every rounding is to the nearest integer, ties toward plus
\* infinity (Math.round): k + 0.5 rounds to k + 1 for every integer k, so
\* -(k + 0.5) rounds to -k.
C9_TiesTowardPlusInfinity ==
    \A v \in Rounded :
        /\ 4 * v[2] - 2 <= v[1] /\ v[1] < 4 * v[2] + 2
        /\ v[1] % 4 = 2 => 4 * v[2] = v[1] + 2

\* A node half a pixel left of its frame's origin: left is 0, not -1.
C9_Witness ==
    /\ call.op = "nodeToJsx"
    /\ call.node.box # None
    /\ call.node.box.x - Origin.x = -2
    /\ ret.left = 0

(* ------------------------------ escaping ------------------------------ *)

Entity(ch) ==
    IF ch = "&" THEN Amp ELSE IF ch = "<" THEN Lt ELSE IF ch = ">" THEN Gt ELSE <<ch>>
RECURSIVE EachCharacter(_)
\* Every character of s by its entity, the others kept.
EachCharacter(s) ==
    IF s = <<>> THEN <<>> ELSE Entity(Head(s)) \o EachCharacter(Tail(s))
Plain(s) == \A i \in 1 .. Len(s) : s[i] \notin {"&", "<", ">"}

\* C6 as stated: escaping is idempotent, escape(escape(s)) = escape(s).
C6_Original ==
    (call.op = "escapeJsxText" /\ call.again) => ret = call.s

\* C6, amended: escapeJsxText replaces '&', '<', '>' by '&amp;', '&lt;',
\* '&gt;', '&' first, so one call never escapes the ampersand of an entity it
\* wrote itself: the result is the text with each of the three characters
\* replaced once.  It is not idempotent: escape(escape(s)) = escape(s) exactly
\* when s holds none of the three characters; otherwise the second call
\* escapes every ampersand the first one wrote.
C6_EscapesEachCharacterOnce ==
    call.op = "escapeJsxText" =>
        /\ ret = EachCharacter(call.s)
        /\ call.again => (ret = call.s <=> Plain(call.orig))
        /\ ret = call.s <=> Plain(call.s)

\* "&" escaped twice is "&amp;amp;".
C6_Witness ==
    /\ call.op = "escapeJsxText"
    /\ call.again
    /\ call.orig = <<"&">>
    /\ call.s = Amp
    /\ ret = <<"&", "a", "m", "p", ";", "a", "m", "p", ";">>

====
